---- MODULE Spec2Model ----
(***************************************************************************)
(* TopayWallet (src/src/wallet.js) and the part of TopayRestClient          *)
(* (src/unnamed/part_001) that the wallet talks to.                         *)
(*                                                                         *)
(* JavaScript is single threaded: the code between two `await`s runs        *)
(* atomically.  Every action below is one such segment of one call of a     *)
(* public method; pc[c] names the await the call c is suspended at.         *)
(* The backend behind the REST client is an external server: each answer    *)
(* is drawn nondeterministically (any history length, any balance, any      *)
(* UTXO set, or a communication failure).  log[c] records, for the call in  *)
(* progress, the requests issued and the answers received.                  *)
(***************************************************************************)
EXTENDS Integers, Sequences, FiniteSets, TLC

\* this._maxWalletIndex, wallet.js:28 (1000 there; scaled down to be explored)
MaxWalletIndex == 3
\* longest UTXO list the backend answers with
MaxUtxos == 2
\* largest transactions.length the backend answers with
MaxHistoryLen == 1

\* most transactions the recording backend is sent
MaxBroadcasts == 2

\* how far outside [0, MaxWalletIndex] the indices handed to a derivation go
MaxIndexExcess == 12

\* this._satoshisPerByte = 1.1, wallet.js:29, as the fraction 11/10
SatoshisPerByteNum == 11
SatoshisPerByteDen == 10

\* callers that may hold a call on the one wallet instance
Callers == {1, 2}

\* satoshi values of single unspent outputs (the test fixtures' values)
SatoshiValues == {1000, 2000}
\* integer amounts and fees passed to send()
AmountValues == {-1, 0, 500, 1000}
FeeValues == {-1, 0, 500}

---------------------------------------------------------------------------
\* JavaScript values passed as amount / fee
IntVal(n) == [t |-> "int", n |-> n]
Undefined == [t |-> "undefined", n |-> 0]
\* a value for which Number.isInteger is false (1.5, "1", null, ...)
NonInteger == [t |-> "other", n |-> 0]

NumberIsInteger(v) == v.t = "int"

\* bitcoincashjs JSUtil.isNaturalNumber, the check Transaction.to applies
IsNaturalNumber(n) == n >= 0

\* Addresses: the string derived from the wallet's seed at an index, an
\* address of somebody else, and a string that is no address at all.
OwnAddress(i) == [seed |-> "own", index |-> i]
OtherAddress == [seed |-> "other", index |-> 0]
MalformedAddress == [seed |-> "malformed", index |-> 0]

\* a check that lets every string pass as an address
AddressIsValid_Any(a) == TRUE

\* Address.isValid(recipient, 'livenet'), lines 79 and 101
AddressIsValid(a) == a.seed # "malformed"

\* new Script(new Address(a)).toHex()
ScriptOf(a) == [p2pkh |-> a]

Recipients ==
    {OwnAddress(i) : i \in 0..MaxWalletIndex} \cup {OtherAddress, MalformedAddress}

---------------------------------------------------------------------------
\* Results of calls that may throw
Ok(v) == [err |-> "", val |-> v]
Throw(e) == [err |-> e, val |-> 0]
Failed(r) == r.err # ""

\* a check of the index that stops short of the maximum index
IndexArgumentOk_Exclusive(index) ==
    NumberIsInteger(index) /\ index.n >= 0 /\ index.n < MaxWalletIndex

\* checkArgument(Number.isInteger(index) && index >= 0 && index <= max, 'index')
IndexArgumentOk(index) ==
    NumberIsInteger(index) /\ index.n >= 0 /\ index.n <= MaxWalletIndex

\* a derivation that hands out the key of the next index
_getPrivateKey_Next(index) ==
    IF IndexArgumentOk(IntVal(index.n + 1))
    THEN Ok([privateKeyAt |-> index.n + 1])
    ELSE Throw("InvalidArgument")

_getPrivateKey(index) ==
    IF IndexArgumentOk(index)
    THEN Ok([privateKeyAt |-> index.n])
    ELSE Throw("InvalidArgument")

_getPublicKey(index) ==
    IF IndexArgumentOk(index)
    THEN Ok([publicKeyAt |-> index.n])
    ELSE Throw("InvalidArgument")

_getAddress(index) ==
    LET key == _getPublicKey(index)
    IN  IF Failed(key) THEN key ELSE Ok(OwnAddress(key.val.publicKeyAt))

---------------------------------------------------------------------------
\* bitcoincashjs Transaction, as far as the wallet uses it

\* new Transaction().from(inputs)
TransactionFrom(ins) == [inputs |-> ins, outputs |-> <<>>, signed |-> <<>>]

\* transaction.to(address, amount): rejects an amount that is no natural number
TransactionTo(tx, address, amt) ==
    IF IsNaturalNumber(amt)
    THEN Ok([tx EXCEPT !.outputs =
                Append(@, [script |-> ScriptOf(address), satoshis |-> amt])])
    ELSE Throw("InvalidOutputAmount")

\* transaction.sign(privateKey): signs the inputs that the key's address owns
TransactionSign(tx, privateKey) ==
    [tx EXCEPT !.signed =
        [i \in 1..Len(tx.inputs) |->
            tx.inputs[i].script = ScriptOf(OwnAddress(privateKey.privateKeyAt))]]

IsFullySigned(tx) ==
    /\ Len(tx.signed) = Len(tx.inputs)
    /\ \A i \in 1..Len(tx.signed) : tx.signed[i]

\* bytes of the serialized transaction: version, counts and lock time, the
\* inputs (with or without their signature script) and the P2PKH outputs
TransactionBytes(tx) ==
    LET inBytes(i) == IF i <= Len(tx.signed) /\ tx.signed[i] THEN 148 ELSE 41
        RECURSIVE sumIn(_)
        sumIn(i) == IF i = 0 THEN 0 ELSE inBytes(i) + sumIn(i - 1)
    IN  10 + sumIn(Len(tx.inputs)) + 34 * Len(tx.outputs)

\* transaction.toString(): the hex string, two characters a byte
TransactionToString(tx) ==
    [hexLength |-> 2 * TransactionBytes(tx),
     inputs |-> tx.inputs, outputs |-> tx.outputs, signed |-> tx.signed]

RECURSIVE SumSatoshis(_)
\* inputs.reduce((total, input) => total + input.satoshis, 0)
SumSatoshis(ins) ==
    IF ins = <<>> THEN 0 ELSE Head(ins).satoshis + SumSatoshis(Tail(ins))

RECURSIVE SumOutputs(_)
SumOutputs(outs) ==
    IF outs = <<>> THEN 0 ELSE Head(outs).satoshis + SumOutputs(Tail(outs))

RECURSIVE Pow2Floor(_)
\* the largest power of two that is <= n, for n >= 1
Pow2Floor(n) == IF n < 2 THEN 1 ELSE 2 * Pow2Floor(n \div 2)

\* Math.ceil(bytes * 1.1) in IEEE-754 doubles.  The double nearest to 1.1 is
\* 11/10 + 0.4 * 2^-52, so the product is above the exact one by
\* bytes * 0.4 * 2^-52.  That matters only when bytes * 11/10 is an integer
\* (bytes = 10 m): the product then rounds to a double above 11 m exactly
\* when 4 m * 2^-52 exceeds half the spacing of the doubles at 11 m.
CeilTimesSatoshisPerByte(bytes) ==
    LET exact == (bytes * SatoshisPerByteNum + SatoshisPerByteDen - 1)
                    \div SatoshisPerByteDen
        m == bytes \div SatoshisPerByteDen
    IN  IF bytes > 0 /\ bytes % SatoshisPerByteDen = 0
           /\ 8 * m > Pow2Floor(SatoshisPerByteNum * m)
        THEN exact + 1
        ELSE exact

---------------------------------------------------------------------------
VARIABLES
    walletIndex,   \* this._walletIndex
    pc,            \* pc[c]: the await the call of caller c is suspended at
    op,            \* op[c]: the public method called
    recipient,     \* the call's arguments: recipient, amount, fee
    amount,
    fee,
    result,        \* what the call returned or threw
    entry,         \* this._walletIndex when the call was made
    log,           \* the backend requests of the call and their answers
    builds,        \* the invocations of _buildTransaction made by the call
    reported,      \* reported[i]: the backend's latest word on address i
    ledger,        \* what a backend that records broadcasts holds
    overlapped,    \* a call was made while another call was in progress
    index,         \* the argument of a key derivation
    derived        \* the derivation applied to it, and its outcome

vars ==
    <<walletIndex, pc, op, recipient, amount, fee, result, entry, log, builds,
      reported, ledger, overlapped, index, derived>>

\* what no method of the wallet writes: the backend's records, and the
\* argument and outcome of a key derivation made on its own
environment == <<ledger, overlapped, index, derived>>

NoAddress == [seed |-> "none", index |-> 0]

Request(call, arg) ==
    [call |-> call, arg |-> arg, status |-> "pending", answer |-> 0]

\* the log with its pending request answered
Answered(lg, status, answer) ==
    [lg EXCEPT ![Len(lg)] = [@ EXCEPT !.status = status, !.answer = answer]]

\* what GET /addr/<address> may answer: balanceSat and unconfirmedBalanceSat
BalanceSatValues == {0, 42}
UnconfirmedBalanceSatValues == {0, 8}

\* what POST /tx/send may answer as txid
TransactionIds == {"some transaction id", "some other transaction id"}

\* what GET /addr/<address>/utxo may answer for an address
UtxoSets(address) ==
    { [j \in 1..k |->
          [txid |-> j, vout |-> j, address |-> address,
           scriptPubKey |-> ScriptOf(address), satoshis |-> sats[j]]] :
      k \in 0..MaxUtxos, sats \in [1..MaxUtxos -> SatoshiValues] }

\* utxoSet.map(utxo => ({ txId, outputIndex, address, script, satoshis }))
MapUtxoSet(utxoSet) ==
    [j \in 1..Len(utxoSet) |->
        [txId |-> utxoSet[j].txid, outputIndex |-> utxoSet[j].vout,
         address |-> utxoSet[j].address, script |-> utxoSet[j].scriptPubKey,
         satoshis |-> utxoSet[j].satoshis]]

---------------------------------------------------------------------------
\* TopayWallet's synchronous private methods

\* a builder that compares the balance with the amount alone
InsufficientFunds_IgnoresFee(balance, amt, f) == balance < amt

\* line 177: balance < amount + fee
InsufficientFunds(balance, amt, f) == balance < amt + f

\* a builder that hands the fee back as change
Change_KeepsFee(balance, amt, f) == balance - amt

\* line 180
Change(balance, amt, f) == balance - amt - f

\* a builder without the branch for a payment to the change address
NotChangeAddress_Always(rcpt, changeAddress) == TRUE

\* line 184: recipient !== changeAddress
NotChangeAddress(rcpt, changeAddress) == rcpt # changeAddress

\* a builder that adds a change output also for a change of 0
HasChange_OrZero(change) == change >= 0

\* line 186: change > 0
HasChange(change) == change > 0

_buildTransaction(ins, rcpt, amt, f) ==
    LET balance == SumSatoshis(ins)
        change == Change(balance, amt, f)
        changeAddress == _getAddress(IntVal(walletIndex))
        privateKey == _getPrivateKey(IntVal(walletIndex - 1))
        start == TransactionFrom(ins)
        paid == IF NotChangeAddress(rcpt, changeAddress.val)
                THEN TransactionTo(start, rcpt, amt)
                ELSE TransactionTo(start, rcpt, amt + change)
        withChange == IF /\ NotChangeAddress(rcpt, changeAddress.val)
                         /\ ~Failed(paid)
                         /\ HasChange(change)
                      THEN TransactionTo(paid.val, changeAddress.val, change)
                      ELSE paid
    IN  IF InsufficientFunds(balance, amt, f) THEN Throw("InsufficientFunds")
        ELSE IF Failed(changeAddress) THEN changeAddress
        ELSE IF Failed(privateKey) THEN privateKey
        ELSE IF Failed(withChange) THEN withChange
        ELSE Ok(TransactionSign(withChange.val, privateKey.val))

_calculateFee(ins, rcpt, amt) ==
    LET transaction == _buildTransaction(ins, rcpt, amt, 0)
        transactionBytes == TransactionToString(transaction.val).hexLength \div 2
    IN  IF Failed(transaction) THEN transaction
        ELSE Ok(CeilTimesSatoshisPerByte(transactionBytes))

\* the record kept of one invocation of _buildTransaction
Invocation(ins, rcpt, amt, f) ==
    [inputs |-> ins, recipient |-> rcpt, amount |-> amt, fee |-> f,
     walletIndex |-> walletIndex, out |-> _buildTransaction(ins, rcpt, amt, f)]

---------------------------------------------------------------------------
\* no records: the backend answers as it pleases
NoLedger == [used |-> 0, initial |-> <<>>, accepted |-> <<>>]

\* no derivation made
NotDerived == [method |-> "none", out |-> Ok(Undefined)]

\* constructor, lines 21-31, and no call made yet
constructor ==
    /\ walletIndex = 0
    /\ pc = [c \in Callers |-> "idle"]
    /\ op = [c \in Callers |-> "none"]
    /\ recipient = [c \in Callers |-> NoAddress]
    /\ amount = [c \in Callers |-> Undefined]
    /\ fee = [c \in Callers |-> Undefined]
    /\ result = [c \in Callers |-> Ok(Undefined)]
    /\ entry = [c \in Callers |-> 0]
    /\ log = [c \in Callers |-> <<>>]
    /\ builds = [c \in Callers |-> <<>>]
    /\ reported = [i \in 0..MaxWalletIndex |-> "never"]

Init ==
    /\ constructor
    /\ ledger = NoLedger
    /\ overlapped = FALSE
    /\ index = Undefined
    /\ derived = NotDerived

\* A public method is entered with its arguments
Enter(c, method, rcpt, amt, f) ==
    /\ pc[c] = "idle"
    /\ op' = [op EXCEPT ![c] = method]
    /\ recipient' = [recipient EXCEPT ![c] = rcpt]
    /\ amount' = [amount EXCEPT ![c] = amt]
    /\ fee' = [fee EXCEPT ![c] = f]
    /\ entry' = [entry EXCEPT ![c] = walletIndex]

\* The call ends: returns `r`, or throws it
Finish(c, r) ==
    /\ pc' = [pc EXCEPT ![c] = "done"]
    /\ result' = [result EXCEPT ![c] = r]

\* a call that fires its request twice and awaits the second
Await_Twice(c, lg, call, arg) ==
    /\ pc' = [pc EXCEPT ![c] = call]
    /\ log' = [log EXCEPT ![c] =
                  Append(Append(lg, Request(call, arg)), Request(call, arg))]
    /\ result' = result

\* The call suspends at `await this._restClient.<call>(arg)`
Await(c, lg, call, arg) ==
    /\ pc' = [pc EXCEPT ![c] = call]
    /\ log' = [log EXCEPT ![c] = Append(lg, Request(call, arg))]
    /\ result' = result

\* a scan whose loop also runs at the maximum index
UpdateWalletIndexLoop_Inclusive(c, w, lg) ==
    IF w <= MaxWalletIndex
    THEN LET address == _getAddress(IntVal(w))
         IN  IF Failed(address)
             THEN Finish(c, address) /\ log' = [log EXCEPT ![c] = lg]
             ELSE Await(c, lg, "getAddress", address.val)
    ELSE /\ pc' = [pc EXCEPT ![c] = "scanned"]
         /\ log' = [log EXCEPT ![c] = lg]
         /\ result' = result

\* a scan that starts every call at address 0 again
UpdateWalletIndexLoop_Restart(c, w, lg) ==
    IF w < MaxWalletIndex
    THEN LET address == _getAddress(IntVal(IF lg = <<>> THEN 0 ELSE w))
         IN  IF Failed(address)
             THEN Finish(c, address) /\ log' = [log EXCEPT ![c] = lg]
             ELSE Await(c, lg, "getAddress", address.val)
    ELSE /\ pc' = [pc EXCEPT ![c] = "scanned"]
         /\ log' = [log EXCEPT ![c] = lg]
         /\ result' = result

\* _updateWalletIndex, lines 118-120: the loop test with this._walletIndex at w,
\* and the history request of one more round
UpdateWalletIndexLoop(c, w, lg) ==
    IF w < MaxWalletIndex
    THEN LET address == _getAddress(IntVal(w))
         IN  IF Failed(address)
             THEN Finish(c, address) /\ log' = [log EXCEPT ![c] = lg]
             ELSE Await(c, lg, "getAddress", address.val)
    ELSE /\ pc' = [pc EXCEPT ![c] = "scanned"]
         /\ log' = [log EXCEPT ![c] = lg]
         /\ result' = result

initialize(c) ==
    /\ Enter(c, "initialize", NoAddress, Undefined, Undefined)
    /\ UpdateWalletIndexLoop(c, walletIndex, log[c])
    /\ UNCHANGED <<walletIndex, builds, reported>>

getBalance(c) ==
    /\ Enter(c, "getBalance", NoAddress, Undefined, Undefined)
    /\ UpdateWalletIndexLoop(c, walletIndex, log[c])
    /\ UNCHANGED <<walletIndex, builds, reported>>

getReceiveAddress(c) ==
    /\ Enter(c, "getReceiveAddress", NoAddress, Undefined, Undefined)
    /\ UpdateWalletIndexLoop(c, walletIndex, log[c])
    /\ UNCHANGED <<walletIndex, builds, reported>>

\* send, lines 78-82
send(c, rcpt, amt, f) ==
    /\ Enter(c, "send", rcpt, amt, f)
    /\ IF /\ AddressIsValid(rcpt)
          /\ NumberIsInteger(amt)
          /\ (f = Undefined \/ NumberIsInteger(f))
       THEN UpdateWalletIndexLoop(c, walletIndex, log[c])
       ELSE Finish(c, Throw("InvalidArgument")) /\ log' = log
    /\ UNCHANGED <<walletIndex, builds, reported>>

\* widthraw, lines 100-102
widthraw(c, rcpt) ==
    /\ Enter(c, "widthraw", rcpt, Undefined, Undefined)
    /\ IF AddressIsValid(rcpt)
       THEN UpdateWalletIndexLoop(c, walletIndex, log[c])
       ELSE Finish(c, Throw("InvalidArgument")) /\ log' = log
    /\ UNCHANGED <<walletIndex, builds, reported>>

\* a scan that increments before it looks at the history
NextWalletIndex_Always(w, length) == w + 1

\* _updateWalletIndex, lines 121-124: this._walletIndex after an answer
NextWalletIndex(w, length) == IF length = 0 THEN w ELSE w + 1

\* _updateWalletIndex, lines 120-125: the history of the address arrives
getAddressResponse(c, length) ==
    /\ pc[c] = "getAddress"
    /\ walletIndex' = NextWalletIndex(walletIndex, length)
    /\ IF length = 0
       THEN /\ pc' = [pc EXCEPT ![c] = "scanned"]
            /\ log' = [log EXCEPT ![c] = Answered(log[c], "ok", length)]
            /\ result' = result
       ELSE UpdateWalletIndexLoop(c, NextWalletIndex(walletIndex, length),
                                  Answered(log[c], "ok", length))
    /\ reported' = [reported EXCEPT ![log[c][Len(log[c])].arg.index] =
                        IF length = 0 THEN "empty" ELSE "used"]
    /\ UNCHANGED <<op, recipient, amount, fee, entry, builds>>

\* a wallet that swallows the error of a failed request
requestFails_Swallowed(c) ==
    /\ pc[c] \in {"getAddress", "getBalance", "getUtxoSet", "sendTransaction"}
    /\ Finish(c, Ok(Undefined))
    /\ log' = [log EXCEPT ![c] = Answered(log[c], "failed", 0)]
    /\ UNCHANGED <<walletIndex, op, recipient, amount, fee, entry, builds, reported>>

\* a wallet that puts the index back where the failed call found it
requestFails_Rollback(c) ==
    /\ pc[c] \in {"getAddress", "getBalance", "getUtxoSet", "sendTransaction"}
    /\ Finish(c, Throw("CommunicationError"))
    /\ log' = [log EXCEPT ![c] = Answered(log[c], "failed", 0)]
    /\ walletIndex' = entry[c]
    /\ UNCHANGED <<op, recipient, amount, fee, entry, builds, reported>>

\* TopayRestClient._unwrap, lines 117-129: a request fails, the call throws
requestFails(c) ==
    /\ pc[c] \in {"getAddress", "getBalance", "getUtxoSet", "sendTransaction"}
    /\ Finish(c, Throw("CommunicationError"))
    /\ log' = [log EXCEPT ![c] = Answered(log[c], "failed", 0)]
    /\ UNCHANGED <<walletIndex, op, recipient, amount, fee, entry, builds, reported>>

\* initialize, line 39
initializeReturns(c) ==
    /\ pc[c] = "scanned" /\ op[c] = "initialize"
    /\ Finish(c, Ok(Undefined))
    /\ UNCHANGED <<walletIndex, op, recipient, amount, fee, entry, log, builds, reported>>

\* a getBalance that asks for the balance of the address at the wallet index
getBalanceScanned_CurrentIndex(c) ==
    /\ pc[c] = "scanned" /\ op[c] = "getBalance"
    /\ IF walletIndex = 0
       THEN Finish(c, Ok(0)) /\ log' = log
       ELSE LET address == _getAddress(IntVal(walletIndex))
            IN  IF Failed(address)
                THEN Finish(c, address) /\ log' = log
                ELSE Await(c, log[c], "getBalance", address.val)
    /\ UNCHANGED <<walletIndex, op, recipient, amount, fee, entry, builds, reported>>

\* getBalance, lines 48-52
getBalanceScanned(c) ==
    /\ pc[c] = "scanned" /\ op[c] = "getBalance"
    /\ IF walletIndex = 0
       THEN Finish(c, Ok(0)) /\ log' = log
       ELSE LET address == _getAddress(IntVal(walletIndex - 1))
            IN  IF Failed(address)
                THEN Finish(c, address) /\ log' = log
                ELSE Await(c, log[c], "getBalance", address.val)
    /\ UNCHANGED <<walletIndex, op, recipient, amount, fee, entry, builds, reported>>

\* getBalance, lines 52-53, with TopayRestClient.getBalance, lines 44-48
getBalanceResponse(c, balanceSat, unconfirmedBalanceSat) ==
    /\ pc[c] = "getBalance"
    /\ LET balance == balanceSat + unconfirmedBalanceSat
       IN  /\ Finish(c, Ok(balance))
           /\ log' = [log EXCEPT ![c] = Answered(log[c], "ok", balance)]
    /\ UNCHANGED <<walletIndex, op, recipient, amount, fee, entry, builds, reported>>

\* getReceiveAddress, line 63
getReceiveAddressScanned(c) ==
    /\ pc[c] = "scanned" /\ op[c] = "getReceiveAddress"
    /\ Finish(c, _getAddress(IntVal(walletIndex)))
    /\ UNCHANGED <<walletIndex, op, recipient, amount, fee, entry, log, builds, reported>>

\* _getAvailableInputs, lines 134-135, called by send (83) and widthraw (103)
_getAvailableInputs(c) ==
    /\ pc[c] = "scanned" /\ op[c] \in {"send", "widthraw"}
    /\ LET address == _getAddress(IntVal(walletIndex - 1))
       IN  IF Failed(address)
           THEN Finish(c, address) /\ log' = log
           ELSE Await(c, log[c], "getUtxoSet", address.val)
    /\ UNCHANGED <<walletIndex, op, recipient, amount, fee, entry, builds, reported>>

\* a send that takes the estimated fee out of the amount
sendBuilds_DeductsFee(rcpt, amt, f, inputs) ==
    IF f = Undefined
    THEN LET estimate == _calculateFee(inputs, rcpt, amt)
         IN  IF Failed(estimate)
             THEN <<Invocation(inputs, rcpt, amt, 0)>>
             ELSE <<Invocation(inputs, rcpt, amt, 0),
                    Invocation(inputs, rcpt, amt - estimate.val, estimate.val)>>
    ELSE <<Invocation(inputs, rcpt, amt, f.n)>>

\* send, lines 84-87: the invocations of _buildTransaction, the one inside
\* _calculateFee first when the fee was not given
sendBuilds(rcpt, amt, f, inputs) ==
    IF f = Undefined
    THEN LET estimate == _calculateFee(inputs, rcpt, amt)
         IN  IF Failed(estimate)
             THEN <<Invocation(inputs, rcpt, amt, 0)>>
             ELSE <<Invocation(inputs, rcpt, amt, 0),
                    Invocation(inputs, rcpt, amt, estimate.val)>>
    ELSE <<Invocation(inputs, rcpt, amt, f.n)>>

\* a widthraw that sends the whole balance and leaves nothing for the fee
widthrawBuilds_WholeBalance(rcpt, inputs) ==
    LET balance == SumSatoshis(inputs)
        estimate == _calculateFee(inputs, rcpt, balance)
    IN  IF Failed(estimate)
        THEN <<Invocation(inputs, rcpt, balance, 0)>>
        ELSE <<Invocation(inputs, rcpt, balance, 0),
               Invocation(inputs, rcpt, balance, 0)>>

\* widthraw, lines 104-106
widthrawBuilds(rcpt, inputs) ==
    LET balance == SumSatoshis(inputs)
        estimate == _calculateFee(inputs, rcpt, balance)
    IN  IF Failed(estimate)
        THEN <<Invocation(inputs, rcpt, balance, 0)>>
        ELSE <<Invocation(inputs, rcpt, balance, 0),
               Invocation(inputs, rcpt, balance - estimate.val, estimate.val)>>

\* _getAvailableInputs, lines 135-142, then send, lines 83-88, or widthraw,
\* lines 103-107: the unspent outputs arrive, the transaction is built and
\* handed to the backend
getUtxoSetAnswered(c, utxoSet) ==
    /\ pc[c] = "getUtxoSet"
    /\ LET inputs == MapUtxoSet(utxoSet)
           made == IF op[c] = "send"
                   THEN sendBuilds(recipient[c], amount[c].n, fee[c], inputs)
                   ELSE widthrawBuilds(recipient[c], inputs)
           last == made[Len(made)]
           transaction == last.out
           lg == Answered(log[c], "ok", utxoSet)
       IN  /\ builds' = [builds EXCEPT ![c] = made]
           /\ fee' = [fee EXCEPT ![c] =
                         IF Len(made) = 2 THEN IntVal(last.fee) ELSE @]
           /\ IF Failed(transaction)
              THEN Finish(c, transaction) /\ log' = [log EXCEPT ![c] = lg]
              ELSE Await(c, lg, "sendTransaction",
                         TransactionToString(transaction.val))
    /\ UNCHANGED <<walletIndex, op, recipient, amount, entry, reported>>

\* TopayRestClient.getUtxoSet, lines 58-61: the backend answers with some list
\* of unspent outputs of the address
getUtxoSetResponse(c) ==
    /\ pc[c] = "getUtxoSet"
    /\ \E utxoSet \in UtxoSets(log[c][Len(log[c])].arg) :
           getUtxoSetAnswered(c, utxoSet)

\* a wallet that steps past the change address once the broadcast went out
sendTransactionResponse_Advances(c, txid) ==
    /\ pc[c] = "sendTransaction"
    /\ Finish(c, Ok(txid))
    /\ log' = [log EXCEPT ![c] = Answered(log[c], "ok", txid)]
    /\ walletIndex' = walletIndex + 1
    /\ UNCHANGED <<op, recipient, amount, fee, entry, builds, reported>>

\* a call that loses the identifier the backend answered with
sendTransactionResponse_DropsId(c, txid) ==
    /\ pc[c] = "sendTransaction"
    /\ Finish(c, Ok(""))
    /\ log' = [log EXCEPT ![c] = Answered(log[c], "ok", txid)]
    /\ UNCHANGED <<walletIndex, op, recipient, amount, fee, entry, builds, reported>>

\* send, lines 88-89, and widthraw, lines 107-108, with
\* TopayRestClient.sendTransaction, lines 75-76
sendTransactionResponse(c, txid) ==
    /\ pc[c] = "sendTransaction"
    /\ Finish(c, Ok(txid))
    /\ log' = [log EXCEPT ![c] = Answered(log[c], "ok", txid)]
    /\ UNCHANGED <<walletIndex, op, recipient, amount, fee, entry, builds, reported>>

\* The caller has the outcome; the call's frame is gone
Return(c) ==
    /\ pc[c] = "done"
    /\ pc' = [pc EXCEPT ![c] = "idle"]
    /\ op' = [op EXCEPT ![c] = "none"]
    /\ recipient' = [recipient EXCEPT ![c] = NoAddress]
    /\ amount' = [amount EXCEPT ![c] = Undefined]
    /\ fee' = [fee EXCEPT ![c] = Undefined]
    /\ result' = [result EXCEPT ![c] = Ok(Undefined)]
    /\ entry' = [entry EXCEPT ![c] = 0]
    /\ log' = [log EXCEPT ![c] = <<>>]
    /\ builds' = [builds EXCEPT ![c] = <<>>]
    /\ UNCHANGED <<walletIndex, reported>>

Amounts == {IntVal(n) : n \in AmountValues} \cup {NonInteger}
Fees == {IntVal(n) : n \in FeeValues} \cup {Undefined, NonInteger}

\* One step of the call of caller c
Step(c) ==
    \/ initialize(c) /\ UNCHANGED environment
    \/ getBalance(c) /\ UNCHANGED environment
    \/ getReceiveAddress(c) /\ UNCHANGED environment
    \/ \E rcpt \in Recipients, amt \in Amounts, f \in Fees :
           send(c, rcpt, amt, f) /\ UNCHANGED environment
    \/ \E rcpt \in Recipients : widthraw(c, rcpt) /\ UNCHANGED environment
    \/ \E length \in 0..MaxHistoryLen :
           getAddressResponse(c, length) /\ UNCHANGED environment
    \/ requestFails(c) /\ UNCHANGED environment
    \/ initializeReturns(c) /\ UNCHANGED environment
    \/ getBalanceScanned(c) /\ UNCHANGED environment
    \/ \E b \in BalanceSatValues, u \in UnconfirmedBalanceSatValues :
           getBalanceResponse(c, b, u) /\ UNCHANGED environment
    \/ getReceiveAddressScanned(c) /\ UNCHANGED environment
    \/ _getAvailableInputs(c) /\ UNCHANGED environment
    \/ getUtxoSetResponse(c) /\ UNCHANGED environment
    \/ \E txid \in TransactionIds :
           sendTransactionResponse(c, txid) /\ UNCHANGED environment
    \/ Return(c) /\ UNCHANGED environment

\* Calls serialized on the one wallet instance: one caller, one call at a time
Next == \E c \in {1} : Step(c)

Spec == Init /\ [][Next]_vars

---------------------------------------------------------------------------
\* The key derivations on their own: applied to any index a caller may pass

IndexValues ==
    {IntVal(n) : n \in (0 - MaxIndexExcess)..(MaxWalletIndex + MaxIndexExcess)}
        \cup {NonInteger, Undefined}

InitDerive ==
    /\ constructor
    /\ ledger = NoLedger
    /\ overlapped = FALSE
    /\ index \in IndexValues
    /\ derived = NotDerived

\* the derivation leaves the wallet and the backend as they are
Derives(method, out) ==
    /\ derived = NotDerived
    /\ derived' = [method |-> method, out |-> out]
    /\ UNCHANGED <<walletIndex, pc, op, recipient, amount, fee, result, entry,
                   log, builds, reported, ledger, overlapped, index>>

derivePrivateKey == Derives("_getPrivateKey", _getPrivateKey(index))

derivePublicKey == Derives("_getPublicKey", _getPublicKey(index))

deriveAddress == Derives("_getAddress", _getAddress(index))

NextDerive ==
    \/ derivePrivateKey
    \/ derivePublicKey
    \/ deriveAddress

SpecDerive == InitDerive /\ [][NextDerive]_vars

---------------------------------------------------------------------------
\* Two callers on the one wallet instance, against a backend that records
\* what is broadcast: it accepts every transaction it is sent, and answers
\* every question from its records.
\*   ledger.used      addresses 0 .. used-1 had a history before any call
\*   ledger.initial   the confirmed unspent outputs then, at address used-1
\*   ledger.accepted  the transactions accepted since, in order

\* the identifier the backend gives the n-th transaction it accepts
LedgerTxid(n) == MaxUtxos + n

\* the outputs the n-th accepted transaction created
LedgerCreated(n) ==
    LET tx == ledger.accepted[n]
    IN  [i \in 1..Len(tx.outputs) |->
            [txid |-> LedgerTxid(n), vout |-> i - 1,
             address |-> tx.outputs[i].script.p2pkh,
             scriptPubKey |-> tx.outputs[i].script,
             satoshis |-> tx.outputs[i].satoshis]]

RECURSIVE LedgerCreatedUpTo(_)
LedgerCreatedUpTo(n) ==
    IF n = 0 THEN <<>> ELSE LedgerCreatedUpTo(n - 1) \o LedgerCreated(n)

\* the accepted transactions that spend the output
LedgerSpenders(u) ==
    {n \in 1..Len(ledger.accepted) :
        \E i \in 1..Len(ledger.accepted[n].inputs) :
            /\ ledger.accepted[n].inputs[i].txId = u.txid
            /\ ledger.accepted[n].inputs[i].outputIndex = u.vout}

\* a backend that goes on listing an output after it was spent
LedgerSpent_Never(u) == FALSE

LedgerSpent(u) == LedgerSpenders(u) # {}

LedgerUnspentAt(outputs, address) ==
    SelectSeq(outputs, LAMBDA u : u.address = address /\ ~LedgerSpent(u))

\* GET /addr/<address>/utxo
LedgerUtxoSet(address) ==
    LedgerUnspentAt(ledger.initial
                        \o LedgerCreatedUpTo(Len(ledger.accepted)), address)

\* GET /addr/<address>: balanceSat, unconfirmedBalanceSat and transactions
LedgerBalanceSat(address) ==
    SumSatoshis(LedgerUnspentAt(ledger.initial, address))

LedgerUnconfirmedBalanceSat(address) ==
    SumSatoshis(LedgerUnspentAt(LedgerCreatedUpTo(Len(ledger.accepted)),
                                address))

LedgerInvolves(tx, address) ==
    \/ \E i \in 1..Len(tx.inputs) : tx.inputs[i].address = address
    \/ \E i \in 1..Len(tx.outputs) : tx.outputs[i].script = ScriptOf(address)

LedgerHistoryLength(address) ==
    (IF address.seed = "own" /\ address.index < ledger.used THEN 1 ELSE 0)
        + Cardinality({n \in 1..Len(ledger.accepted) :
                          LedgerInvolves(ledger.accepted[n], address)})

\* the records before any call: some addresses used, funds at the last one
InitialLedgers ==
    UNION {{[used |-> k, initial |-> utxoSet, accepted |-> <<>>] :
               utxoSet \in UtxoSets(OwnAddress(k - 1))} :
           k \in 1..MaxWalletIndex}

InitLedger ==
    /\ constructor
    /\ ledger \in InitialLedgers
    /\ overlapped = FALSE
    /\ index = Undefined
    /\ derived = NotDerived

\* the call of caller c is in progress
Busy(c) == pc[c] \notin {"idle", "done"}

\* caller c makes a call: it overlaps if another call is in progress
Enters(c) ==
    /\ overlapped' = (overlapped \/ \E d \in Callers \ {c} : Busy(d))
    /\ UNCHANGED <<ledger, index, derived>>

\* the sends in progress
Sending == {c \in Callers : Busy(c) /\ op[c] = "send"}

\* the pending request of the call
Pending(c) == log[c][Len(log[c])]

LedgerRecipients == {OtherAddress, OwnAddress(MaxWalletIndex - 1)}
LedgerAmounts == {IntVal(500)}
LedgerFees == {IntVal(0)}

\* POST /tx/send: the backend records the transaction and answers its id
ledgerAccepts(c) ==
    /\ pc[c] = "sendTransaction"
    /\ sendTransactionResponse(c, LedgerTxid(Len(ledger.accepted) + 1))
    /\ ledger' = [ledger EXCEPT !.accepted = Append(@, Pending(c).arg)]
    /\ UNCHANGED <<overlapped, index, derived>>

\* One step of the call of caller c, the backend answering from its records
LedgerStep(c) ==
    \/ getBalance(c) /\ Enters(c)
    \/ \E rcpt \in LedgerRecipients, amt \in LedgerAmounts, f \in LedgerFees :
           /\ Len(ledger.accepted) + Cardinality(Sending) < MaxBroadcasts
           /\ send(c, rcpt, amt, f) /\ Enters(c)
    \/ /\ pc[c] = "getAddress"
       /\ getAddressResponse(c, LedgerHistoryLength(Pending(c).arg))
       /\ UNCHANGED environment
    \/ requestFails(c) /\ UNCHANGED environment
    \/ getBalanceScanned(c) /\ UNCHANGED environment
    \/ /\ pc[c] = "getBalance"
       /\ getBalanceResponse(c, LedgerBalanceSat(Pending(c).arg),
                             LedgerUnconfirmedBalanceSat(Pending(c).arg))
       /\ UNCHANGED environment
    \/ _getAvailableInputs(c) /\ UNCHANGED environment
    \/ /\ pc[c] = "getUtxoSet"
       /\ getUtxoSetAnswered(c, LedgerUtxoSet(Pending(c).arg))
       /\ UNCHANGED environment
    \/ ledgerAccepts(c)

\* One call of each of two callers, the two interleaved at their awaits or
\* one made after the other has settled
NextLedger == \E c \in Callers : LedgerStep(c)

SpecLedger == InitLedger /\ [][NextLedger]_vars

---------------------------------------------------------------------------
\* What the log of a call says

\* the positions of the requests of one kind in the log of call c
Requests(c, call) == {j \in DOMAIN log[c] : log[c][j].call = call}

\* the backend answered the history request for address i with n transactions
HistoryAnswer(c, i, n) ==
    \E j \in Requests(c, "getAddress") :
        /\ log[c][j].arg = OwnAddress(i)
        /\ log[c][j].status = "ok"
        /\ log[c][j].answer = n

ReportedEmpty(c, i) == HistoryAnswer(c, i, 0)
ReportedUsed(c, i) == \E n \in 1..MaxHistoryLen : HistoryAnswer(c, i, n)

Returned(c, method) == pc[c] = "done" /\ op[c] = method /\ ~Failed(result[c])

---------------------------------------------------------------------------
\* C1: on a fresh wallet (wallet index 0 when initialize is called), if the
\* backend reports a non-empty history for the addresses 0..k-1 and an empty
\* one for address k (no address is left to ask about when k is the maximum
\* index), the wallet index is k when initialize() completes; and the backend
\* did report just that for the index initialize() completes with.
C1_InitializeFindsFirstUnused ==
    \A c \in Callers :
        Returned(c, "initialize") /\ entry[c] = 0 =>
            /\ \A k \in 0..MaxWalletIndex :
                   (/\ \A i \in 0..(k - 1) : ReportedUsed(c, i)
                    /\ (k < MaxWalletIndex => ReportedEmpty(c, k)))
                   => walletIndex = k
            /\ \A i \in 0..(walletIndex - 1) : ReportedUsed(c, i)
            /\ walletIndex < MaxWalletIndex => ReportedEmpty(c, walletIndex)

\* initialize() completed on a fresh wallet with some, but not all, addresses used
C1_Witness ==
    \E c \in Callers :
        /\ Returned(c, "initialize") /\ entry[c] = 0
        /\ walletIndex > 0 /\ walletIndex < MaxWalletIndex
        /\ \A i \in 0..(walletIndex - 1) : ReportedUsed(c, i)
        /\ ReportedEmpty(c, walletIndex)

\* C2: after a scan has completed, every index below the wallet index had a
\* non-empty history reported by the backend, and the address at the wallet
\* index itself was reported with an empty history by that scan, for every
\* reachable wallet index, the maximum index included.
C2_ScanLeavesIndexAtReportedUnused ==
    \A c \in Callers :
        pc[c] = "scanned" =>
            /\ \A i \in 0..(walletIndex - 1) : reported[i] = "used"
            /\ ReportedEmpty(c, walletIndex)

\* C3: across any sequence of public operations, failing ones included and
\* whatever the backend answers, the wallet index never decreases (and so is
\* never reset to 0).
C3_WalletIndexNeverDecreases == [][walletIndex' >= walletIndex]_vars

\* an operation failed after its scan had advanced the wallet index
C3_Witness ==
    \E c \in Callers :
        /\ pc[c] = "done" /\ Failed(result[c])
        /\ entry[c] > 0 /\ walletIndex > entry[c]

\* C4: whenever getReceiveAddress() returns, the address returned is the one
\* derived at the wallet index, and the backend reported an empty history for
\* that very address during this call, for every reachable wallet index.
C4_ReceiveAddressReportedUnused ==
    \A c \in Callers :
        Returned(c, "getReceiveAddress") =>
            /\ result[c].val = OwnAddress(walletIndex)
            /\ ReportedEmpty(c, walletIndex)

\* C5: getBalance() re-scans first; with the wallet index at 0 after the scan
\* it returns 0 and issues no balance request; otherwise it issues exactly one
\* balance request, for the address at wallet index - 1, and returns the
\* value of the answer unchanged.
C5_GetBalanceAsksLastUsedAddress ==
    \A c \in Callers :
        op[c] = "getBalance" =>
            LET asked == Requests(c, "getBalance")
                last == Len(log[c])
            IN  /\ \A j \in asked :
                    /\ j = last
                    /\ \A i \in 1..(j - 1) :
                           log[c][i].call = "getAddress" /\ log[c][i].status = "ok"
                    /\ walletIndex > 0
                    /\ log[c][j].arg = OwnAddress(walletIndex - 1)
                /\ Returned(c, "getBalance") =>
                    /\ walletIndex < MaxWalletIndex => ReportedEmpty(c, walletIndex)
                    /\ IF walletIndex = 0
                       THEN result[c].val = 0 /\ asked = {}
                       ELSE /\ asked = {last}
                            /\ log[c][last].status = "ok"
                            /\ result[c].val = log[c][last].answer

\* getBalance() returned the positive balance of a last used address
C5_Witness ==
    \E c \in Callers :
        /\ Returned(c, "getBalance")
        /\ walletIndex > 1
        /\ result[c].val > 0

\* the invocations of _buildTransaction on record
Built == UNION {{builds[c][j] : j \in DOMAIN builds[c]} : c \in Callers}

\* T, the total of the inputs of an invocation, and its change
Total(b) == SumSatoshis(b.inputs)
ChangeOf(b) == Total(b) - b.amount - b.fee
FundsSuffice(b) == Total(b) >= b.amount + b.fee
ToChangeAddress(b) == b.recipient = OwnAddress(b.walletIndex)

\* C6: for inputs totalling T, amount A and fee F with T >= A + F, the
\* transaction _buildTransaction returns has output values that sum to exactly
\* T - F, whether or not the recipient is the change address; and it does
\* return one whenever A is an amount of satoshis (A >= 0).
C6_OutputsSumToTotalLessFee ==
    \A b \in Built :
        FundsSuffice(b) =>
            /\ ~Failed(b.out) => SumOutputs(b.out.val.outputs) = Total(b) - b.fee
            /\ b.amount >= 0 => ~Failed(b.out)

\* a transaction with a positive fee and change was built for another recipient
C6_Witness ==
    \E b \in Built :
        /\ ~Failed(b.out)
        /\ ~ToChangeAddress(b)
        /\ b.amount > 0 /\ b.fee > 0 /\ ChangeOf(b) > 0

\* C7: _buildTransaction fails with InsufficientFunds if and only if the sum of
\* the inputs is below amount + fee; when it fails, the call ends with that
\* error, no transaction exists to broadcast, and the wallet index is the one
\* the builder found.
C7_InsufficientFundsIffTotalBelowAmountPlusFee ==
    \A c \in Callers :
        \A j \in DOMAIN builds[c] :
            LET b == builds[c][j]
            IN  /\ (b.out.err = "InsufficientFunds") <=> (Total(b) < b.amount + b.fee)
                /\ Failed(b.out) =>
                    /\ pc[c] = "done" /\ result[c] = b.out
                    /\ j = Len(builds[c])
                    /\ Requests(c, "sendTransaction") = {}
                    /\ walletIndex = b.walletIndex

\* a build failed for lack of funds although the inputs cover the amount alone
C7_Witness ==
    \E b \in Built :
        /\ b.out.err = "InsufficientFunds"
        /\ b.fee > 0
        /\ Total(b) >= b.amount /\ b.amount > 0

\* C8: when the recipient is the address at the current wallet index (the
\* change address) and funds suffice, the transaction built has exactly one
\* output, to that address, of value amount + change = T - fee; no transaction
\* built has two outputs to the same address.
C8_SelfPaymentHasOneOutput ==
    \A b \in Built :
        ~Failed(b.out) =>
            LET outputs == b.out.val.outputs
            IN  /\ ToChangeAddress(b) /\ FundsSuffice(b) =>
                    outputs = << [script |-> ScriptOf(b.recipient),
                                  satoshis |-> b.amount + ChangeOf(b)] >>
                /\ \A i, j \in DOMAIN outputs :
                       i # j => outputs[i].script # outputs[j].script

\* a payment to the change address that leaves change was built
C8_Witness ==
    \E b \in Built :
        /\ ~Failed(b.out)
        /\ ToChangeAddress(b)
        /\ b.amount > 0 /\ ChangeOf(b) > 0

\* C9: when the recipient is not the change address and funds suffice, the
\* transaction built has a recipient output of exactly amount and, if and only
\* if change > 0, a second output of exactly change = T - amount - fee to the
\* address at the current wallet index; every transaction built has 1 or 2
\* outputs, never 0, also for amount = 0 with change = 0.
C9_RecipientOutputAndOptionalChange ==
    \A b \in Built :
        ~Failed(b.out) =>
            LET outputs == b.out.val.outputs
            IN  /\ Len(outputs) \in {1, 2}
                /\ ~ToChangeAddress(b) /\ FundsSuffice(b) =>
                    /\ outputs[1] = [script |-> ScriptOf(b.recipient),
                                     satoshis |-> b.amount]
                    /\ (Len(outputs) = 2) <=> (ChangeOf(b) > 0)
                    /\ Len(outputs) = 2 =>
                           outputs[2] =
                               [script |-> ScriptOf(OwnAddress(b.walletIndex)),
                                satoshis |-> ChangeOf(b)]

\* a transaction with amount 0 and no change was built: one output of value 0
C9_Witness ==
    \E b \in Built :
        /\ ~Failed(b.out)
        /\ ~ToChangeAddress(b)
        /\ b.amount = 0 /\ ChangeOf(b) = 0
        /\ Len(b.out.val.outputs) = 1
        /\ b.out.val.outputs[1].satoshis = 0

\* C10: with the wallet index at 0, _getAvailableInputs, and with it send and
\* widthraw on a wallet with no used address, fails with InsufficientHistory,
\* without a request for unspent outputs and without a broadcast.
C10_EmptyWalletFailsWithInsufficientHistory ==
    \A c \in Callers :
        /\ pc[c] = "done" /\ op[c] \in {"send", "widthraw"}
        /\ walletIndex = 0 /\ ReportedEmpty(c, 0)
        => /\ Failed(result[c])
           /\ result[c].err = "InsufficientHistory"
           /\ Requests(c, "getUtxoSet") = {}
           /\ Requests(c, "sendTransaction") = {}

---------------------------------------------------------------------------
\* C11: send with a malformed recipient, a non-integer amount or a supplied
\* non-integer fee, and widthraw with a malformed recipient, fail with
\* InvalidArgument before any backend request is issued (and before anything
\* is built), and leave the wallet index as it was.
C11_BadArgumentsFailBeforeAnyRequest ==
    \A c \in Callers :
        \/ /\ op[c] = "send"
           /\ \/ recipient[c] = MalformedAddress
              \/ amount[c] = NonInteger
              \/ fee[c] = NonInteger
        \/ /\ op[c] = "widthraw"
           /\ recipient[c] = MalformedAddress
        => /\ pc[c] = "done"
           /\ result[c] = Throw("InvalidArgument")
           /\ log[c] = <<>>
           /\ builds[c] = <<>>
           /\ walletIndex = entry[c]

\* send was refused for its fee alone, on a wallet with used addresses
C11_Witness ==
    \E c \in Callers :
        /\ op[c] = "send" /\ pc[c] = "done"
        /\ recipient[c] = OtherAddress
        /\ amount[c] = IntVal(500)
        /\ fee[c] = NonInteger
        /\ result[c] = Throw("InvalidArgument")
        /\ walletIndex > 0

\* C12: send rejects a negative amount and a supplied negative fee: the call
\* fails validation, and no transaction is built or broadcast.
C12_SendRejectsNegativeAmountAndFee ==
    \A c \in Callers :
        /\ op[c] = "send"
        /\ \/ NumberIsInteger(amount[c]) /\ amount[c].n < 0
           \/ NumberIsInteger(fee[c]) /\ fee[c].n < 0
        => /\ pc[c] = "done"
           /\ result[c] = Throw("InvalidArgument")
           /\ builds[c] = <<>>
           /\ Requests(c, "sendTransaction") = {}

\* C13: in every send / widthraw call the broadcast is requested at most once,
\* as the last request of the call, after every earlier request was answered
\* and _buildTransaction returned a signed transaction, which is the one
\* handed over; a call that failed in validation, scan, input collection, fee
\* estimation or build requested no broadcast; a call that succeeds returns
\* the identifier that broadcast answered with. No other method broadcasts.
C13_BroadcastOnceAfterSignedBuild ==
    \A c \in Callers :
        LET sent == Requests(c, "sendTransaction")
            last == Len(log[c])
        IN  /\ Cardinality(sent) <= 1
            /\ sent # {} => op[c] \in {"send", "widthraw"}
            /\ \A j \in sent :
                   /\ j = last
                   /\ \A i \in 1..(j - 1) : log[c][i].status = "ok"
                   /\ builds[c] # <<>>
                   /\ \A k \in DOMAIN builds[c] : ~Failed(builds[c][k].out)
                   /\ LET transaction == builds[c][Len(builds[c])].out.val
                      IN  /\ IsFullySigned(transaction)
                          /\ log[c][j].arg = TransactionToString(transaction)
            /\ pc[c] = "done" /\ Failed(result[c]) =>
                   \/ sent = {}
                   \/ /\ log[c][last].status = "failed"
                      /\ result[c] = Throw("CommunicationError")
            /\ Returned(c, "send") \/ Returned(c, "widthraw") =>
                   /\ sent = {last}
                   /\ log[c][last].status = "ok"
                   /\ result[c].val = log[c][last].answer
                   /\ result[c].val \in TransactionIds

\* a send with an estimated fee returned the identifier of its broadcast
C13_Witness ==
    \E c \in Callers :
        /\ Returned(c, "send")
        /\ Len(builds[c]) = 2
        /\ Len(builds[c][2].inputs) = 2
        /\ result[c].val = "some other transaction id"

\* the unspent outputs the backend answered the call with, as inputs
UtxoAnswered(c) ==
    \E j \in Requests(c, "getUtxoSet") : log[c][j].status = "ok"

CollectedInputs(c) ==
    LET j == CHOOSE j \in Requests(c, "getUtxoSet") : log[c][j].status = "ok"
    IN  MapUtxoSet(log[c][j].answer)

\* C14: widthraw(recipient) with collected balance B and estimated fee
\* f = _calculateFee(inputs, recipient, B), where the recipient is not the
\* change address and B >= f, broadcasts a transaction spending the collected
\* inputs with exactly one output, to the recipient, of value B - f, and no
\* change output.
C14_WidthrawSendsBalanceLessFee ==
    \A c \in Callers :
        op[c] = "widthraw" /\ UtxoAnswered(c) =>
            LET inputs == CollectedInputs(c)
                B == SumSatoshis(inputs)
                f == _calculateFee(inputs, recipient[c], B)
                last == Len(log[c])
            IN  /\ ~Failed(f)
                /\ recipient[c] # OwnAddress(walletIndex) /\ B >= f.val =>
                       /\ Requests(c, "sendTransaction") = {last}
                       /\ log[c][last].arg.inputs = inputs
                       /\ log[c][last].arg.outputs =
                              << [script |-> ScriptOf(recipient[c]),
                                  satoshis |-> B - f.val] >>

\* a widthraw of two unspent outputs to somebody else's address was broadcast
C14_Witness ==
    \E c \in Callers :
        /\ Returned(c, "widthraw")
        /\ recipient[c] = OtherAddress
        /\ Len(CollectedInputs(c)) = 2
        /\ SumSatoshis(CollectedInputs(c)) = 3000

\* C15: widthraw throws the wallet's insufficient-funds error, and broadcasts
\* nothing, whenever the sum of the collected inputs is smaller than the
\* estimated fee, an empty set of unspent outputs included.
C15_WidthrawInsufficientFundsBelowFee ==
    \A c \in Callers :
        op[c] = "widthraw" /\ UtxoAnswered(c) =>
            LET inputs == CollectedInputs(c)
                B == SumSatoshis(inputs)
                f == _calculateFee(inputs, recipient[c], B)
            IN  ~Failed(f) /\ B < f.val =>
                    /\ pc[c] = "done"
                    /\ result[c] = Throw("InsufficientFunds")
                    /\ Requests(c, "sendTransaction") = {}

\* the history requests of the call that were answered with a used address
UsedAnswers(c) ==
    {j \in Requests(c, "getAddress") :
        log[c][j].status = "ok" /\ log[c][j].answer > 0}

\* C16: when a backend request (history, balance, unspent outputs, broadcast)
\* fails with CommunicationError during a public operation, the operation
\* fails with that error; the failed request is the last one of the call (no
\* retry, no further request), and the wallet index keeps the value the scan
\* had reached before the failing request.
C16_CommunicationErrorPropagates ==
    \A c \in Callers :
        \A j \in DOMAIN log[c] :
            log[c][j].status = "failed" =>
                /\ j = Len(log[c])
                /\ pc[c] = "done"
                /\ result[c] = Throw("CommunicationError")
                /\ walletIndex = entry[c] + Cardinality(UsedAnswers(c))

\* a broadcast failed after the scan of the call had advanced the wallet index
C16_Witness ==
    \E c \in Callers :
        /\ pc[c] = "done"
        /\ log[c] # <<>>
        /\ log[c][Len(log[c])].call = "sendTransaction"
        /\ log[c][Len(log[c])].status = "failed"
        /\ walletIndex > entry[c]

\* C17: within one public operation the backend requests are strictly
\* sequential, at most one outstanding at a time (only the last request of the
\* log can be pending): first the history requests of the scan, for the
\* addresses at consecutive indices from the wallet index held on entry, then
\* at most one balance or unspent-output request, then at most one broadcast;
\* no history request follows the unspent-output request.
C17_RequestsSequentialAndOrdered ==
    \A c \in Callers :
        \A j \in DOMAIN log[c] :
            LET r == log[c][j]
                scanOnlyBefore == \A i \in 1..(j - 1) : log[c][i].call = "getAddress"
            IN  /\ r.status = "pending" => j = Len(log[c]) /\ pc[c] = r.call
                /\ j < Len(log[c]) => r.status = "ok"
                /\ r.call = "getAddress" =>
                       /\ scanOnlyBefore
                       /\ r.arg = OwnAddress(entry[c] + j - 1)
                /\ r.call = "getBalance" => scanOnlyBefore /\ op[c] = "getBalance"
                /\ r.call = "getUtxoSet" =>
                       scanOnlyBefore /\ op[c] \in {"send", "widthraw"}
                /\ r.call = "sendTransaction" =>
                       /\ j > 1
                       /\ log[c][j - 1].call = "getUtxoSet"
                       /\ j = Len(log[c])

\* a send went through two history requests, the unspent outputs and the
\* broadcast, on a wallet that had used addresses when it was called
C17_Witness ==
    \E c \in Callers :
        /\ Returned(c, "send")
        /\ entry[c] > 0
        /\ Len(log[c]) = 4
        /\ log[c][2].call = "getAddress"
        /\ log[c][4].call = "sendTransaction"

\* C18: a scan resumes from the stored wallet index, not from 0: for a scan
\* entered with wallet index i, on completion the wallet index is the smallest
\* j >= i below the maximum index whose address the backend reported with an
\* empty history (the maximum index if there is none), and no address below i
\* was asked about; so an index at which an earlier scan stopped and which is
\* reported used now is passed.
C18_ScanResumesFromStoredIndex ==
    \A c \in Callers :
        pc[c] = "scanned" =>
            /\ walletIndex >= entry[c]
            /\ \A k \in entry[c]..(walletIndex - 1) :
                   ReportedUsed(c, k) /\ ~ReportedEmpty(c, k)
            /\ walletIndex < MaxWalletIndex => ReportedEmpty(c, walletIndex)
            /\ \A j \in Requests(c, "getAddress") :
                   log[c][j].arg.index >= entry[c]

\* a scan entered at index 1, where an earlier scan had stopped, found the
\* address at 1 used and stopped at 2
C18_Witness ==
    \E c \in Callers :
        /\ pc[c] = "scanned"
        /\ entry[c] = 1
        /\ walletIndex = 2
        /\ ReportedUsed(c, 1)
        /\ ReportedEmpty(c, 2)
        /\ reported[0] = "used"

\* C19: idempotence once stable: when the address at the wallet index was
\* reported empty (a scan completed there) and the backend answers the same
\* again, the scan leaves the wallet index unchanged and completes after that
\* one history request, the only one of the call, for the address at the
\* wallet index; at the maximum index a scan completes with no request at all.
C19_ScanIdempotentOnceStable ==
    [][\A c \in Callers :
          /\ ( /\ pc[c] = "getAddress"
               /\ reported[log[c][Len(log[c])].arg.index] = "empty"
               /\ log'[c][Len(log[c])].status = "ok"
               /\ log'[c][Len(log[c])].answer = 0 )
             => /\ walletIndex' = walletIndex
                /\ pc'[c] = "scanned"
                /\ Len(log'[c]) = 1
                /\ log'[c][1].arg = OwnAddress(walletIndex)
                /\ entry[c] = walletIndex
          /\ ( pc[c] = "idle" /\ pc'[c] = "scanned" )
             => /\ walletIndex' = walletIndex
                /\ walletIndex = MaxWalletIndex
                /\ log'[c] = <<>>
      ]_vars

\* a scan entered at a wallet index with used addresses below it completed
\* there after a single history request
C19_Witness ==
    \E c \in Callers :
        /\ pc[c] = "scanned"
        /\ entry[c] = walletIndex
        /\ walletIndex > 0 /\ walletIndex < MaxWalletIndex
        /\ Len(log[c]) = 1
        /\ ReportedEmpty(c, walletIndex)

\* the call was refused for its arguments, before its scan
ArgumentsRefused(c) ==
    \/ /\ op[c] \in {"send", "widthraw"}
       /\ recipient[c] = MalformedAddress
    \/ /\ op[c] = "send"
       /\ (amount[c] = NonInteger \/ fee[c] = NonInteger)

\* C20: every scan terminates: entered with wallet index i it issues at most
\* MAX_INDEX - i history requests and none for the address at MAX_INDEX; if
\* every address at i..MAX_INDEX-1 is reported used, the scan ends with the
\* wallet index at MAX_INDEX and without an error (a failure of the call, if
\* any, comes from a later request); the wallet index is within
\* [0, MAX_INDEX] in every reachable state of serialized calls.
C20_ScanTerminatesWithinMaxIndex ==
    /\ walletIndex \in 0..MaxWalletIndex
    /\ \A c \in Callers :
        /\ Cardinality(Requests(c, "getAddress")) <= MaxWalletIndex - entry[c]
        /\ \A j \in Requests(c, "getAddress") :
               log[c][j].arg.index < MaxWalletIndex
        /\ ( /\ op[c] # "none" /\ ~ArgumentsRefused(c)
             /\ \A k \in entry[c]..(MaxWalletIndex - 1) : ReportedUsed(c, k) )
           => /\ walletIndex = MaxWalletIndex
              /\ pc[c] # "getAddress"
              /\ Cardinality(Requests(c, "getAddress")) = MaxWalletIndex - entry[c]
              /\ pc[c] = "done" /\ Failed(result[c]) =>
                     Requests(c, "getBalance") \cup Requests(c, "getUtxoSet") # {}

\* a scan entered at index 1 found every address up to the maximum used
C20_Witness ==
    \E c \in Callers :
        /\ pc[c] = "scanned"
        /\ entry[c] = 1
        /\ walletIndex = MaxWalletIndex
        /\ \A k \in 1..(MaxWalletIndex - 1) : ReportedUsed(c, k)

\* C21: frame: the wallet index changes nowhere but in a step of a scan, the
\* arrival of a history answer: by +1 when the address is reported used, not at
\* all when it is reported empty or the request fails; that step changes
\* nothing else of the wallet or the call (arguments, fee, builds) and the
\* request it issues, if any, is a history request; _getAvailableInputs,
\* _calculateFee, _buildTransaction and the broadcast step leave the index as
\* it is.
C21_WalletIndexChangesOnlyInScan ==
    [][\A c \in Callers :
          /\ pc[c] = "getAddress" /\ log'[c] # log[c] =>
                LET r == log'[c][Len(log[c])]
                IN     /\ walletIndex' =
                              IF r.status = "ok" /\ r.answer > 0
                              THEN walletIndex + 1
                              ELSE walletIndex
                       /\ UNCHANGED <<op, recipient, amount, fee, builds, entry>>
                       /\ \A j \in DOMAIN log'[c] : log'[c][j].call = "getAddress"
          /\ pc[c] # "getAddress" /\ pc'[c] # pc[c] => walletIndex' = walletIndex
      ]_vars

\* a send was broadcast after its scan had advanced the wallet index
C21_Witness ==
    \E c \in Callers :
        /\ Returned(c, "send")
        /\ Cardinality(UsedAnswers(c)) > 0
        /\ walletIndex = entry[c] + Cardinality(UsedAnswers(c))
        /\ Len(builds[c]) = 2

\* C22: in every serialized send / widthraw that reaches the build step, the
\* private key that signs is the one derived at the index of the address whose
\* unspent outputs were collected (wallet index - 1 at build time), so every
\* input is signed; the change address is the one derived exactly one index
\* above it (the wallet index).
C22_SigningKeyMatchesCollectedAddress ==
    \A c \in Callers :
        \A k \in DOMAIN builds[c] :
            LET b == builds[c][k]
                asked == Requests(c, "getUtxoSet")
            IN  /\ Cardinality(asked) = 1
                /\ \A j \in asked :
                       /\ log[c][j].arg = OwnAddress(b.walletIndex - 1)
                       /\ b.inputs = MapUtxoSet(log[c][j].answer)
                       /\ \A i \in DOMAIN b.inputs :
                              b.inputs[i].script = ScriptOf(log[c][j].arg)
                       /\ ~Failed(b.out) =>
                              /\ IsFullySigned(b.out.val)
                              /\ Len(b.out.val.outputs) = 2 =>
                                     b.out.val.outputs[2].script =
                                         ScriptOf(OwnAddress(log[c][j].arg.index + 1))
                /\ b.walletIndex = walletIndex

\* a transaction with two inputs of the address at index 1 and change to the
\* address at index 2 was built
C22_Witness ==
    \E b \in Built :
        /\ ~Failed(b.out)
        /\ b.walletIndex = 2
        /\ Len(b.inputs) = 2
        /\ b.inputs[1].address = OwnAddress(1)
        /\ Len(b.out.val.outputs) = 2

\* the call estimates its fee: widthraw, or send with the fee omitted
FeeOmitted(c) ==
    \/ op[c] = "widthraw"
    \/ op[c] = "send" /\ (fee[c] = Undefined \/ Len(builds[c]) = 2)

\* ceil(bytes x 11/10), in exact arithmetic
ExactCeilOfRate(bytes) ==
    (bytes * SatoshisPerByteNum + SatoshisPerByteDen - 1) \div SatoshisPerByteDen

\* C23: _calculateFee(inputs, recipient, amount) equals ceil(size x rate), size
\* the serialized byte length of _buildTransaction(inputs, recipient, amount, 0)
\* and rate 11/10; it fails with InsufficientFunds exactly when the inputs sum
\* to less than the amount; and send with the fee omitted builds the final
\* transaction with exactly this value as fee.
C23_FeeIsCeilOfSizeTimesRate ==
    \A c \in Callers :
        FeeOmitted(c) /\ builds[c] # <<>> =>
            LET sizing == builds[c][1]
            IN  /\ sizing.fee = 0
                /\ (sizing.out.err = "InsufficientFunds")
                       <=> (Total(sizing) < sizing.amount)
                /\ Failed(sizing.out) => Len(builds[c]) = 1
                /\ ~Failed(sizing.out) =>
                       /\ Len(builds[c]) = 2
                       /\ builds[c][2].fee =
                              ExactCeilOfRate(TransactionBytes(sizing.out.val))
                       /\ op[c] = "send" =>
                              /\ fee[c] = IntVal(builds[c][2].fee)
                              /\ builds[c][2].amount = sizing.amount

\* C24: send with the fee omitted and amount <= balance < amount + estimated
\* fee (amount = balance in particular): the zero-fee sizing build succeeds,
\* the final build then fails with InsufficientFunds and nothing is broadcast;
\* a send with the fee omitted succeeds only when balance >= amount +
\* estimated fee. (The sizing build is promised for an amount of satoshis,
\* amount >= 0.)
C24_FeeOmittedNeedsAmountPlusEstimate ==
    \A c \in Callers :
        op[c] = "send" /\ FeeOmitted(c) /\ builds[c] # <<>> =>
            LET sizing == builds[c][1]
                balance == Total(sizing)
            IN  /\ sizing.amount >= 0 /\ sizing.amount <= balance =>
                       ~Failed(sizing.out)
                /\ ~Failed(sizing.out) =>
                       /\ Len(builds[c]) = 2
                       /\ balance < sizing.amount + builds[c][2].fee =>
                              /\ builds[c][2].out = Throw("InsufficientFunds")
                              /\ pc[c] = "done"
                              /\ result[c] = Throw("InsufficientFunds")
                              /\ Requests(c, "sendTransaction") = {}
                /\ Returned(c, "send") =>
                       /\ Len(builds[c]) = 2
                       /\ balance >= sizing.amount + builds[c][2].fee

\* a send of the whole balance with the fee omitted: sized, then refused
C24_Witness ==
    \E c \in Callers :
        /\ op[c] = "send" /\ pc[c] = "done"
        /\ Len(builds[c]) = 2
        /\ builds[c][1].amount = 1000 /\ Total(builds[c][1]) = 1000
        /\ ~Failed(builds[c][1].out)
        /\ builds[c][2].fee > 0
        /\ result[c] = Throw("InsufficientFunds")

\* the outputs the n-th accepted transaction spends
SpentBy(n) ==
    {<<ledger.accepted[n].inputs[i].txId,
       ledger.accepted[n].inputs[i].outputIndex>> :
        i \in 1..Len(ledger.accepted[n].inputs)}

\* some unspent output was spent by two accepted transactions
DoubleSpent ==
    \E m, n \in 1..Len(ledger.accepted) :
        m # n /\ SpentBy(m) \cap SpentBy(n) # {}

\* C25: two overlapping send calls can both collect the same unspent outputs
\* of the same address and each broadcast a transaction spending them; with
\* the calls serialized, against a backend that records what is broadcast, no
\* unspent output is spent by two broadcast transactions: whenever two
\* accepted transactions spend the same output, calls did overlap.
C25_DoubleSpendOnlyWhenCallsOverlap == DoubleSpent => overlapped

\* two overlapping sends were answered the same unspent outputs of the same
\* address, and the transaction of each, spending them, went out
C25_Witness ==
    /\ overlapped
    /\ \A c \in Callers :
           /\ op[c] = "send" /\ pc[c] = "done" /\ ~Failed(result[c])
           /\ UtxoAnswered(c)
    /\ CollectedInputs(1) = CollectedInputs(2)
    /\ CollectedInputs(1) # <<>>
    /\ Len(ledger.accepted) = 2
    /\ SpentBy(1) = SpentBy(2)
    /\ DoubleSpent

\* C26: even when the scans of two operations interleave, the wallet index
\* is incremented at most once per index reported used, so every index it
\* has passed is one whose address the backend reported used.
C26_IndexNeverPassesUnreportedAddress ==
    \A i \in 0..(walletIndex - 1) : i \in DOMAIN reported /\ reported[i] = "used"

\* the call of caller c is a send that went out as the last transaction the
\* backend accepted, paying somebody other than the change address and
\* returning change
LastSendWithChange(c) ==
    /\ op[c] = "send" /\ pc[c] = "done" /\ ~Failed(result[c])
    /\ result[c].val = LedgerTxid(Len(ledger.accepted))
    /\ ChangeOf(builds[c][Len(builds[c])]) > 0
    /\ ~ToChangeAddress(builds[c][Len(builds[c])])

\* C27: in a serialized run against a backend that records broadcasts, after
\* a successful send to a recipient other than the change address with
\* change > 0, the next scan leaves the wallet index exactly one above the
\* index the send was built at, and the next getBalance() returns exactly
\* the change.
C27_ChangeExtendsFrontier ==
    [][\A c, d \in Callers :
          (c # d /\ ~overlapped /\ LastSendWithChange(c)) =>
              LET b == builds[c][Len(builds[c])]
              IN  /\ (pc[d] # "scanned" /\ pc'[d] = "scanned")
                         => walletIndex' = b.walletIndex + 1
                  /\ (pc[d] = "getBalance" /\ pc'[d] = "done"
                         /\ ~Failed(result'[d]))
                         => result'[d].val = ChangeOf(b)]_vars

\* C28: _getPrivateKey, _getPublicKey and _getAddress fail with InvalidArgument
\* for every index that is not an integer in [0, MAX_INDEX] (-1, MAX_INDEX + 1,
\* values that are no integers) and succeed, with the key or address of that
\* index, for every integer index in [0, MAX_INDEX], MAX_INDEX included.
C28_DerivationValidatesIndex ==
    derived.method # "none" =>
        IF index.t = "int" /\ index.n \in 0..MaxWalletIndex
        THEN derived.out =
                 Ok(CASE derived.method = "_getPrivateKey" ->
                             [privateKeyAt |-> index.n]
                      [] derived.method = "_getPublicKey" ->
                             [publicKeyAt |-> index.n]
                      [] derived.method = "_getAddress" -> OwnAddress(index.n))
        ELSE derived.out = Throw("InvalidArgument")

\* the address at the maximum index was derived
C28_Witness ==
    /\ derived.method = "_getAddress"
    /\ index = IntVal(MaxWalletIndex)
    /\ derived.out = Ok(OwnAddress(MaxWalletIndex))

====
